---- MODULE Spec2Model ----
(***************************************************************************)
(* Backtest tracker: the record store of src/context/BacktestContext.tsx   *)
(* (addBacktest, deleteBacktest, importData, syncWithRepo, the debounced   *)
(* recompute of streak and total, exportData, the debounced save to        *)
(* localStorage), AutoSync's version check and its one call on mount, the   *)
(* calendar's completion verdict, the date filter shared by the two lists, *)
(* and the duplicate request handed from the list to the add form.         *)
(*                                                                         *)
(* Dates are day numbers: a valid 'yyyy-MM-dd' string is a number >= 1,    *)
(* the empty string is EmptyDate and a string new Date() cannot parse is   *)
(* BadDate.  Version strings (lastUpdated, version) are sequences of       *)
(* decimal digits, compared the way JavaScript compares strings.           *)
(***************************************************************************)
EXTENDS Integers, Sequences, FiniteSets, TLC

\* ---------------------------------------------------------------- bounds
\* Calendar days 1..MaxDay; the last one lies after today.
MaxDay == 4
\* Date.now() when the page loads, and how many user operations follow it.
Clock0 == 10
MaxOps == 2

\* ------------------------------------------------------ program constants
\* A day is complete at 5 distinct backtest dates.
CompleteThreshold == 5

Days == 1..MaxDay
Today == MaxDay - 1
Yesterday == Today - 1
Future == MaxDay
EmptyDate == 0
BadDate == -1

\* ----------------------------------------------------------- pure helpers
RECURSIVE Digits(_)
\* Number.prototype.toString for a non-negative integer.
Digits(n) == IF n < 10 THEN <<n>> ELSE Append(Digits(n \div 10), n % 10)

RECURSIVE StrLess(_, _)
\* a < b on JavaScript strings of digits: code unit by code unit, a proper
\* prefix is smaller.
StrLess(a, b) ==
  IF b = <<>> THEN FALSE
  ELSE IF a = <<>> THEN TRUE
  ELSE IF Head(a) # Head(b) THEN Head(a) < Head(b)
  ELSE StrLess(Tail(a), Tail(b))

\* a > b on JavaScript strings.
StrGreater(a, b) == StrLess(b, a)

\* x || '0' for a version string: the empty (or missing) string is falsy.
OrZero(v) == IF v = <<>> THEN <<0>> ELSE v

RECURSIVE SumSeq(_)
SumSeq(s) == IF s = <<>> THEN 0 ELSE Head(s) + SumSeq(Tail(s))

\* new Set(backtests.map(bt => bt.backtestDate)).size
countUniqueBacktestDates(backtests) ==
  Cardinality({backtests[i].backtestDate : i \in 1..Len(backtests)})

\* ------------------------------------------------- the dailyProgress object
\* A JavaScript object with string keys keeps them in insertion order, so
\* dailyProgress is a sequence of buckets [key, date, backtests, isComplete]
\* with pairwise different keys.
Keys(dp) == {dp[i].key : i \in 1..Len(dp)}
KeySeq(dp) == [i \in 1..Len(dp) |-> dp[i].key]
IndexOf(dp, k) == CHOOSE i \in 1..Len(dp) : dp[i].key = k
Get(dp, k) == dp[IndexOf(dp, k)]
\* Faulty variant: the other days are not carried over
PutAlone(dp, k, b) == <<b>>

\* updatedDailyProgress[k] = b : in place for an existing key, appended otherwise
Put(dp, k, b) ==
  IF k \in Keys(dp) THEN [dp EXCEPT ![IndexOf(dp, k)] = b] ELSE Append(dp, b)

\* total += countUniqueBacktestDates(day.backtests) over Object.values
SumUnique(dp) ==
  SumSeq([i \in 1..Len(dp) |-> countUniqueBacktestDates(dp[i].backtests)])

AllRecords(dp) ==
  UNION {{dp[i].backtests[j] : j \in 1..Len(dp[i].backtests)} : i \in 1..Len(dp)}
AllIds(dp) == {r.id : r \in AllRecords(dp)}

\* ------------------------------------------------------------ JSON documents
\* The records of a bucket of a JSON document: ids 100*key + i, all performed
\* on the bucket's day.
Recs(key, dates) ==
  [i \in 1..Len(dates) |->
     [id |-> 100 * key + i, backtestDate |-> dates[i], datePerformed |-> key]]
Bk(key, dates, flag) ==
  [key |-> key, date |-> key, backtests |-> Recs(key, dates), isComplete |-> flag]
NoAnalyses == [d \in Days |-> 0]
Doc(dp, total, streak, an) ==
  [hasDP |-> TRUE, dailyProgress |-> dp, totalBacktests |-> total,
   currentStreak |-> streak, analyses |-> an]

Full == <<1, 2, 3, 4, 5>>
D_Empty == Doc(<<>>, 0, 0, NoAnalyses)
\* yesterday complete, today one date short
D_Streak == Doc(<<Bk(Yesterday, Full, TRUE), Bk(Today, <<1, 2, 3, 4>>, FALSE)>>,
                9, 1, NoAnalyses)
\* today and day 1 complete, nothing recorded in between
D_Gap == Doc(<<Bk(1, Full, TRUE), Bk(Today, Full, TRUE)>>, 10, 2, NoAnalyses)
\* today complete and a complete bucket dated tomorrow
D_Future == Doc(<<Bk(Today, Full, TRUE), Bk(Future, Full, TRUE)>>, 10, 2, NoAnalyses)
\* written by the earlier store (isComplete and total count entries, not
\* distinct dates): five entries for one backtest date
D_Legacy == Doc(<<Bk(Today, <<1, 1, 1, 1, 1>>, TRUE)>>, 5, 1, NoAnalyses)
\* one entry with an empty and one with an unparseable backtestDate, and one
\* with an unparseable datePerformed
D_Invalid ==
  Doc(<<[Bk(Today, <<1, 2, 3, EmptyDate, BadDate, 4>>, TRUE)
           EXCEPT !.backtests[6].datePerformed = BadDate]>>,
      6, 1, NoAnalyses)
\* three distinct backtest dates and two analyses today
D_Analyses == Doc(<<Bk(Today, <<1, 2, 3>>, FALSE)>>, 3, 0,
                  [NoAnalyses EXCEPT ![Today] = 2])
\* an entry copied by hand from yesterday's bucket into today's, id and all
D_Duplicate ==
  Doc(<<Bk(Yesterday, <<1, 2>>, FALSE),
        [Bk(Today, <<1>>, FALSE) EXCEPT !.backtests[1].id = 100 * Yesterday + 1]>>,
      3, 0, NoAnalyses)
\* a data object without dailyProgress
D_NoDP == [hasDP |-> FALSE, dailyProgress |-> <<>>, totalBacktests |-> 0,
           currentStreak |-> 0, analyses |-> NoAnalyses]

V_Missing == <<>>
V_Short == <<9>>
V_Later == Digits(Clock0 + 2)
\* written one millisecond after the page loaded
V_Soon == Digits(Clock0 + 1)

File(v, d) == [version |-> v, data |-> d]
\* what data/backtests.json may hold
RemoteFiles ==
  {File(V_Later, D_Streak), File(V_Later, D_Invalid), File(V_Short, D_Gap),
   File(V_Missing, D_Analyses), File(V_Later, D_NoDP), File(V_Soon, D_Future)}
\* what the user may paste into the import box
ImportFiles ==
  {File(V_Later, D_Legacy), File(V_Missing, D_Streak), File(V_Short, D_Gap),
   File(V_Later, D_Future), File(V_Later, D_Analyses), File(V_Missing, D_Empty),
   File(V_Later, D_Duplicate)}

\* A text: either it is JSON for a value, or JSON.parse throws on it (value is
\* then never read by a parser that reports the error).
Stringify(v) == [parses |-> TRUE, value |-> v]
\* the empty string
EmptyText == [parses |-> FALSE, value |-> File(V_Missing, D_Empty)]
\* what importData may be handed
ImportTexts == {Stringify(f) : f \in ImportFiles} \cup {EmptyText}

\* inputs of the add-backtest form
AddBacktestDates == {1, 5}
AddDatesPerformed == {EmptyDate, Yesterday}

\* ids offered to deleteBacktest: the first and the last entry of each day as
\* the list shows them, and an id no entry has
NoSuchId == 0
DeleteIds(dp) ==
  {dp[i].backtests[1].id : i \in {h \in 1..Len(dp) : dp[h].backtests # <<>>}}
  \cup {dp[i].backtests[Len(dp[i].backtests)].id :
           i \in {h \in 1..Len(dp) : dp[h].backtests # <<>>}}
  \cup {NoSuchId}

Callers == {"auto", "manual"}

\* AutoSync's constants.  Times kept in localStorage are ages at page load,
\* in hours.
APP_VERSION == "1.0.7"
\* the APP_VERSION of an earlier build
OLD_VERSION == "1.0.0"
SYNC_INTERVAL == 24
\* localStorage.getItem of a key that was never set
NoItem == "null"
NoTime == -1

\* -------------------------------------------------------------------- state
VARIABLES
  dailyProgress,   \* state.dailyProgress
  totalBacktests,  \* state.totalBacktests
  currentStreak,   \* state.currentStreak
  lastUpdated,     \* state.lastUpdated
  analyses,        \* state.analyses: number of analyses per day
  syncInProgress,  \* window.__syncInProgress
  pc,              \* per caller: "idle" or "fetching" (awaiting fetch / json)
  force,           \* per caller: the force argument of the running call
  seenVersion,     \* per caller: state.lastUpdated of the render that made the call
  remote,          \* the document served at data/backtests.json
  isProd,          \* import.meta.env.PROD
  autoStarted,     \* AutoSync's mount effect has called performSync
  now,             \* Date.now()
  timerPending,    \* the 100 ms recompute timer is armed
  saveArmed,       \* the 300 ms save timer is armed
  persisted,       \* localStorage 'backtestData'
  exported,        \* the text the last exportData() returned
  page,            \* "loading" until AutoSync's mount effects ran, then "mounted"
  storedVersion,   \* localStorage 'backtest_app_version'
  lastSyncAge,     \* hours since localStorage 'backtest_last_sync_time'
  filterDate,      \* App: the shared filterDate
  searchDate,      \* per list: the text of its search box
  committed,       \* filterDate and the search texts as of the last effects pass
  passes,          \* effects passes since the last event of the user
  uiEvent,         \* the last event of the user on the dashboard
  activeTab,       \* App: the tab shown
  pendingDuplicate, \* FormProvider: the backtest to duplicate, or none
  showAdminTabs,   \* import.meta.env.VITE_SHOW_ADMIN_TABS === 'true'
  form,            \* the fields of the mounted BacktestForm, or none
  clearArmed,      \* a 1000 ms timer that will call clearDuplicate() is armed
  lastOp           \* the operation that produced this state, and what it returned

store == <<dailyProgress, totalBacktests, currentStreak, lastUpdated, analyses>>
syncVars == <<syncInProgress, pc, force, seenVersion>>
vars == <<dailyProgress, totalBacktests, currentStreak, lastUpdated, analyses,
          syncInProgress, pc, force, seenVersion, remote, isProd,
          autoStarted, now, timerPending, saveArmed, persisted, exported,
          page, storedVersion, lastSyncAge, lastOp,
          filterDate, searchDate, committed, passes, uiEvent,
          activeTab, pendingDuplicate, showAdminTabs, form, clearArmed>>
filterVars == <<filterDate, searchDate, committed, passes, uiEvent>>
formVars == <<activeTab, pendingDuplicate, showAdminTabs, form, clearArmed>>

\* The dashboard's two lists, and what a search box may hold: nothing, a
\* whole date, or a part of a date that every valid date here contains (the
\* year).
Lists == {"backtests", "analyses"}
PartialDate == -2
SearchTexts == {EmptyDate, PartialDate} \cup Days
NoEvent == [kind |-> "none", text |-> EmptyDate]

Tabs == {"dashboard", "add-backtest", "add-analysis"}
\* pendingDuplicate = null
NoDuplicate == [id |-> 0, backtestDate |-> EmptyDate, datePerformed |-> EmptyDate]
\* BacktestForm is not rendered
NoForm == [mounted |-> FALSE, backtestDate |-> EmptyDate, datePerformed |-> EmptyDate]
\* useState(new Date()) for both dates; resetForm() sets the same
FreshForm == [mounted |-> TRUE, backtestDate |-> Today, datePerformed |-> Today]

NoResult == [success |-> FALSE, message |-> "none"]
UserOp(name) == [op |-> name, by |-> "user", resp |-> "none", result |-> NoResult]
SyncOp(name, c, resp, r) == [op |-> name, by |-> c, resp |-> resp, result |-> r]
NoVersion == <<>>
\* an import, and whether its text was JSON
ImportOp(name, t) ==
  [op |-> name, by |-> "user", resp |-> IF t.parses THEN "json" ELSE "notJson",
   result |-> NoResult]

\* The state object, as JSON.stringify sees it.
StateValue ==
  [dailyProgress |-> dailyProgress, totalBacktests |-> totalBacktests,
   currentStreak |-> currentStreak, lastUpdated |-> lastUpdated,
   analyses |-> analyses]
\* localStorage.getItem('backtestData') === null
NoEntry ==
  [parses |-> FALSE,
   value |-> [dailyProgress |-> <<>>, totalBacktests |-> 0, currentStreak |-> 0,
              lastUpdated |-> NoVersion, analyses |-> NoAnalyses]]

InitPage ==
  /\ dailyProgress = <<>>
  /\ totalBacktests = 0
  /\ currentStreak = 0
  /\ lastUpdated = Digits(Clock0)
  /\ analyses = NoAnalyses
  /\ syncInProgress = FALSE
  /\ pc = [c \in Callers |-> "idle"]
  /\ force = [c \in Callers |-> FALSE]
  /\ seenVersion = [c \in Callers |-> NoVersion]
  /\ remote \in RemoteFiles
  /\ isProd \in BOOLEAN
  /\ autoStarted = FALSE
  /\ now = Clock0
  /\ timerPending = TRUE
  /\ saveArmed = TRUE
  /\ persisted = NoEntry
  /\ exported = EmptyText
  /\ lastOp = UserOp("init")
  /\ filterDate = EmptyDate
  /\ searchDate = [l \in Lists |-> EmptyDate]
  /\ committed = [filterDate |-> EmptyDate, searchDate |-> [l \in Lists |-> EmptyDate]]
  /\ passes = 0
  /\ uiEvent = NoEvent
  /\ activeTab = "dashboard"
  /\ pendingDuplicate = NoDuplicate
  /\ form = NoForm
  /\ clearArmed = FALSE

\* The rendered page, on a browser that already ran this build and never
\* recorded a sync; AutoSync's call is still to come.
Init ==
  /\ InitPage
  /\ page = "mounted"
  /\ storedVersion = APP_VERSION
  /\ lastSyncAge = NoTime
  /\ showAdminTabs = TRUE

\* The handlers below belong to the rendered application.
Mounted == page = "mounted"
AutoSyncKeys == <<page, storedVersion, lastSyncAge>>
\* what the dashboard's own state does not touch
app == <<store, syncVars, remote, isProd, autoStarted, now, timerPending,
         saveArmed, persisted, exported, AutoSyncKeys, lastOp>>

\* A user operation happens at a later millisecond than the one before it.
CanOperate == now < Clock0 + MaxOps

\* ---------------------------------------------------------------- streak
RECURSIVE SortDesc(_)
\* Object.keys(...).sort((a, b) => new Date(b).getTime() - new Date(a).getTime())
\* on keys that are valid, pairwise different dates: latest first.
SortDesc(ks) ==
  IF ks = <<>> THEN <<>>
  ELSE LET m == CHOOSE i \in 1..Len(ks) : \A j \in 1..Len(ks) : ks[j] <= ks[i]
       IN <<ks[m]>> \o SortDesc(SubSeq(ks, 1, m - 1) \o SubSeq(ks, m + 1, Len(ks)))

\* Faulty variant: the walk does not stop at the first incomplete day
RECURSIVE CountEvery(_, _)
CountEvery(sortedDates, dp) ==
  IF sortedDates = <<>> THEN 0
  ELSE (IF Get(dp, Head(sortedDates)).isComplete THEN 1 ELSE 0)
       + CountEvery(Tail(sortedDates), dp)

RECURSIVE CountLeading(_, _)
\* for (i ...) { if (progress.isComplete) streak++; else break; }
CountLeading(sortedDates, dp) ==
  IF sortedDates = <<>> THEN 0
  ELSE IF Get(dp, Head(sortedDates)).isComplete
       THEN 1 + CountLeading(Tail(sortedDates), dp)
       ELSE 0

\* state.dailyProgress[d]?.isComplete
FlagOf(dp, d) == d \in Keys(dp) /\ Get(dp, d).isComplete

\* Faulty variant: the check of today and yesterday is missing
calculateStreakUnchecked(dp) == CountLeading(SortDesc(KeySeq(dp)), dp)

\* The value calculateStreak stores in currentStreak.
calculateStreak(dp) ==
  LET sortedDates == SortDesc(KeySeq(dp))
      hasRecentComplete == FlagOf(dp, Today) \/ FlagOf(dp, Yesterday)
  IN IF Len(sortedDates) = 0 THEN 0
     ELSE IF ~hasRecentComplete THEN 0
     ELSE CountLeading(sortedDates, dp)

\* ------------------------------------------------------------- operations
\* addBacktest(backtestData): the form's backtestDate and datePerformed.
AddBacktest(bd, performed) ==
  /\ Mounted
  /\ UNCHANGED <<AutoSyncKeys, filterVars, formVars>>
  /\ CanOperate
  /\ LET performDate == IF performed = EmptyDate THEN Today ELSE performed
         id == now
         dayProgress == IF performDate \in Keys(dailyProgress)
                        THEN Get(dailyProgress, performDate)
                        ELSE [key |-> performDate, date |-> performDate,
                              backtests |-> <<>>, isComplete |-> FALSE]
         updatedBacktests ==
           Append(dayProgress.backtests,
                  [id |-> id, backtestDate |-> bd, datePerformed |-> performed])
         uniqueDatesCount == countUniqueBacktestDates(updatedBacktests)
         updatedDailyProgress ==
           Put(dailyProgress, performDate,
               [dayProgress EXCEPT !.backtests = updatedBacktests,
                                   !.isComplete = uniqueDatesCount >= CompleteThreshold])
     IN /\ dailyProgress' = updatedDailyProgress
        /\ totalBacktests' = SumUnique(updatedDailyProgress)
        /\ lastUpdated' = Digits(now)
  /\ now' = now + 1
  /\ timerPending' = TRUE
  /\ saveArmed' = TRUE
  /\ lastOp' = UserOp("add")
  /\ UNCHANGED <<currentStreak, analyses, syncVars, remote, isProd, autoStarted,
                 persisted, exported>>

\* The first bucket, in key order, that holds a backtest with this id.
TargetIndex(dp, id) ==
  CHOOSE i \in 1..Len(dp) :
    /\ \E j \in 1..Len(dp[i].backtests) : dp[i].backtests[j].id = id
    /\ \A h \in 1..(i - 1) : \A j \in 1..Len(dp[h].backtests) : dp[h].backtests[j].id # id

\* targetDate stays null
NoTarget == 0

\* Faulty variant: an id nobody has targets the first bucket
FindTargetOrFirst(dp, id) ==
  IF id \in AllIds(dp) THEN TargetIndex(dp, id)
  ELSE IF dp = <<>> THEN NoTarget ELSE 1

\* The for-in loop that looks for the day holding the backtest
FindTarget(dp, id) ==
  IF id \in AllIds(dp) THEN TargetIndex(dp, id) ELSE NoTarget

\* deleteBacktest(id)
DeleteBacktest(id) ==
  /\ Mounted
  /\ UNCHANGED <<AutoSyncKeys, filterVars, formVars>>
  /\ CanOperate
  /\ IF FindTarget(dailyProgress, id) = NoTarget
     THEN \* if (!targetDate) return prevState
          /\ lastOp' = UserOp("deleteNone")
          /\ UNCHANGED <<store, timerPending, saveArmed>>
     ELSE LET t == FindTarget(dailyProgress, id)
              dayProgress == dailyProgress[t]
              updatedBacktests ==
                SelectSeq(dayProgress.backtests, LAMBDA bt : bt.id # id)
              uniqueDatesCount == countUniqueBacktestDates(updatedBacktests)
              updatedDailyProgress ==
                [dailyProgress EXCEPT ![t] =
                   [dayProgress EXCEPT !.backtests = updatedBacktests,
                                       !.isComplete = uniqueDatesCount >= CompleteThreshold]]
          IN /\ dailyProgress' = updatedDailyProgress
             /\ totalBacktests' = SumUnique(updatedDailyProgress)
             /\ lastUpdated' = Digits(now)
             /\ timerPending' = TRUE
             /\ saveArmed' = TRUE
             /\ lastOp' = UserOp("delete")
             /\ UNCHANGED <<currentStreak, analyses>>
  /\ now' = now + 1
  /\ UNCHANGED <<syncVars, remote, isProd, autoStarted, persisted, exported>>

\* Faulty variant: the derived fields are not exported
exportDataWithoutDerived ==
  Stringify(File(Digits(now), Doc(dailyProgress, 0, 0, analyses)))

\* exportData(): JSON.stringify({version: Date.now().toString(), data: state})
exportData ==
  Stringify(File(Digits(now),
                 Doc(dailyProgress, totalBacktests, currentStreak, analyses)))

\* The export button: the text goes to the text area and the download.
ExportData ==
  /\ Mounted
  /\ UNCHANGED <<AutoSyncKeys, filterVars, formVars>>
  /\ CanOperate
  /\ exported' = exportData
  /\ now' = now + 1
  /\ lastOp' = UserOp("export")
  /\ UNCHANGED <<store, syncVars, remote, isProd, autoStarted, timerPending,
                 saveArmed, persisted>>

\* Faulty variant: a parse error is not noticed
JsonParsesAlways(t) == TRUE

\* JSON.parse(jsonData) returns
JsonParses(t) == t.parses

\* importData(jsonData): text that parses to {version, data} replaces the
\* state; a parse error goes to the catch (console.error and alert).
ImportData(t) ==
  /\ Mounted
  /\ UNCHANGED <<AutoSyncKeys, filterVars, formVars>>
  /\ CanOperate
  /\ JsonParses(t) => t.value.data.hasDP
  /\ IF ~JsonParses(t)
     THEN /\ lastOp' = ImportOp("importAlert", t)
          /\ UNCHANGED <<store, timerPending, saveArmed>>
     ELSE LET f == t.value
          IN /\ dailyProgress' = f.data.dailyProgress
             /\ totalBacktests' = f.data.totalBacktests
             /\ currentStreak' = f.data.currentStreak
             /\ analyses' = f.data.analyses
             /\ lastUpdated' = IF f.version = <<>> THEN Digits(now) ELSE f.version
             /\ timerPending' = TRUE
             /\ saveArmed' = TRUE
             /\ lastOp' = ImportOp("import", t)
  /\ now' = now + 1
  /\ UNCHANGED <<syncVars, remote, isProd, autoStarted, persisted, exported>>

\* Faulty variant: the updates of the timer arm the timer again
RecomputeRearming ==
  /\ Mounted
  /\ UNCHANGED <<AutoSyncKeys, filterVars, formVars>>
  /\ timerPending
  /\ currentStreak' = calculateStreak(dailyProgress)
  /\ totalBacktests' = SumUnique(dailyProgress)
  /\ timerPending' = TRUE
  /\ saveArmed' = TRUE
  /\ lastOp' = UserOp("recompute")
  /\ UNCHANGED <<dailyProgress, lastUpdated, analyses, syncVars, remote, isProd,
                 autoStarted, now, persisted, exported>>

\* The timer of the effect on state.dailyProgress: calculateStreak(), then
\* updateTotalCount().
Recompute ==
  /\ Mounted
  /\ UNCHANGED <<AutoSyncKeys, filterVars, formVars>>
  /\ timerPending
  /\ currentStreak' = calculateStreak(dailyProgress)
  /\ totalBacktests' = SumUnique(dailyProgress)
  /\ timerPending' = FALSE
  /\ saveArmed' = TRUE
  /\ lastOp' = UserOp("recompute")
  /\ UNCHANGED <<dailyProgress, lastUpdated, analyses, syncVars, remote, isProd,
                 autoStarted, now, persisted, exported>>

\* Faulty variant: the timer writes the state of the first render
SaveTimerFirstRender ==
  /\ Mounted
  /\ UNCHANGED <<AutoSyncKeys, filterVars, formVars>>
  /\ saveArmed
  /\ persisted' = Stringify([dailyProgress |-> <<>>, totalBacktests |-> 0,
                             currentStreak |-> 0, lastUpdated |-> Digits(Clock0),
                             analyses |-> NoAnalyses])
  /\ saveArmed' = FALSE
  /\ lastOp' = UserOp("save")
  /\ UNCHANGED <<store, syncVars, remote, isProd, autoStarted, now, timerPending,
                 exported>>

\* The timer of the effect on state: localStorage.setItem('backtestData',
\* JSON.stringify(state)).
SaveTimer ==
  /\ Mounted
  /\ UNCHANGED <<AutoSyncKeys, filterVars, formVars>>
  /\ saveArmed
  /\ persisted' = Stringify(StateValue)
  /\ saveArmed' = FALSE
  /\ lastOp' = UserOp("save")
  /\ UNCHANGED <<store, syncVars, remote, isProd, autoStarted, now, timerPending,
                 exported>>

\* ------------------------------------------------------------------- sync
\* new Date(s) parses s: isNaN(date.getTime()) is false
ParsesAsDate(d) == d >= 1

\* Faulty variant: an empty date is rejected too
PassesValidationStrict(bt) ==
  ParsesAsDate(bt.backtestDate) /\ ParsesAsDate(bt.datePerformed)

\* The filter of cleanAndValidateData: a non-empty date must parse.
PassesValidation(bt) ==
  /\ bt.backtestDate # EmptyDate => ParsesAsDate(bt.backtestDate)
  /\ bt.datePerformed # EmptyDate => ParsesAsDate(bt.datePerformed)

\* Faulty variant: isComplete is kept as the snapshot has it
CleanDayKeepingFlag(day) ==
  [day EXCEPT !.backtests = SelectSeq(day.backtests, PassesValidation)]

\* One day of cleanAndValidateData: filter the entries, then recompute isComplete.
CleanDay(day) ==
  LET kept == SelectSeq(day.backtests, PassesValidation)
  IN [day EXCEPT !.backtests = kept,
                 !.isComplete = countUniqueBacktestDates(kept) >= CompleteThreshold]

\* Faulty variant: a missing dailyProgress is read as an empty one
cleanAndValidateDataDefaulting(data) ==
  IF ~data.hasDP THEN [data EXCEPT !.hasDP = TRUE, !.dailyProgress = <<>>]
  ELSE [data EXCEPT !.dailyProgress =
          [i \in 1..Len(data.dailyProgress) |-> CleanDay(data.dailyProgress[i])]]

\* cleanAndValidateData(data); without dailyProgress the inner catch returns
\* the data as it came.
cleanAndValidateData(data) ==
  IF ~data.hasDP THEN data
  ELSE [data EXCEPT !.dailyProgress =
          [i \in 1..Len(data.dailyProgress) |-> CleanDay(data.dailyProgress[i])]]

\* Faulty variant: the force flag is ignored
ShouldReplaceNoForce(f, repoVersion, currentVersion) ==
  StrGreater(repoVersion, currentVersion)

\* if (force || repoVersion > currentVersion)
ShouldReplace(f, repoVersion, currentVersion) ==
  f \/ StrGreater(repoVersion, currentVersion)

\* Faulty variant: the flag is not consulted
SyncBusyNever == FALSE

\* if ((window as any).__syncInProgress)
SyncBusy == syncInProgress

R_Busy == [success |-> FALSE, message |-> "Sync already in progress"]
R_NotOk == [success |-> FALSE, message |-> "Failed to fetch data"]
R_Error == [success |-> FALSE, message |-> "Error syncing with repository"]
R_Updated == [success |-> TRUE, message |-> "Data updated from repository"]
R_UpToDate == [success |-> TRUE, message |-> "Local data is up to date"]

\* Faulty variant: the automatic sync is attempted again
AutoMayStartAgain == TRUE

\* AutoSync's effect has an empty dependency list: it runs performSync once,
\* when the component mounts.
AutoMayStart == ~autoStarted

\* What the caller does with the result of syncWithRepo: performSync stores
\* the time if result.success, checkForUpdates stores it whatever the result.
WritesSyncTime(c, result) == c = "manual" \/ result.success

\* localStorage 'backtest_last_sync_time' after a call by c returned result
SyncTimeAfter(c, result) == IF WritesSyncTime(c, result) THEN 0 ELSE lastSyncAge

\* syncWithRepo(force) up to its first await, with the caller's handling of
\* an immediate return.
syncWithRepoStart(c, f) ==
  /\ IF SyncBusy
     THEN /\ lastOp' = SyncOp("syncBusy", c, "none", R_Busy)
          /\ lastSyncAge' = SyncTimeAfter(c, R_Busy)
          /\ UNCHANGED <<syncInProgress, pc, force, seenVersion>>
     ELSE /\ syncInProgress' = TRUE
          /\ pc' = [pc EXCEPT ![c] = "fetching"]
          /\ force' = [force EXCEPT ![c] = f]
          /\ seenVersion' = [seenVersion EXCEPT ![c] = lastUpdated]
          /\ lastOp' = SyncOp("syncStart", c, "none", NoResult)
          /\ UNCHANGED lastSyncAge
  /\ UNCHANGED <<store, remote, isProd, now, timerPending, saveArmed, persisted,
                 exported>>

\* A call of syncWithRepo.  AutoSync calls it once, on mount, with
\* force = isProd; the sync button calls it whenever no call of its own is
\* pending.
SyncStart(c, f) ==
  /\ Mounted
  /\ pc[c] = "idle"
  /\ c = "auto" => AutoMayStart /\ f = isProd
  /\ autoStarted' = (autoStarted \/ c = "auto")
  /\ syncWithRepoStart(c, f)
  /\ UNCHANGED <<page, storedVersion, filterVars, formVars>>

Responses == {"throws", "notOk", "badJson", "ok"}

\* Faulty variant: the non-OK return leaves the flag set
FlagOnReturnNotOkLeaks(resp) == resp = "notOk"

\* (window as any).__syncInProgress = false, before each return and in the
\* catch
FlagOnReturn(resp) == FALSE

\* syncWithRepo from the resolution of fetch to its return, and the caller's
\* handling of the result.
SyncFinish(c, resp) ==
  /\ Mounted
  /\ pc[c] = "fetching"
  /\ pc' = [pc EXCEPT ![c] = "idle"]
  /\ syncInProgress' = FlagOnReturn(resp)
  /\ LET repoState == remote.data
         cleanedData == cleanAndValidateData(repoState)
         currentVersion == OrZero(seenVersion[c])
         repoVersion == OrZero(remote.version)
         Fail(r) == /\ lastOp' = SyncOp("syncFail", c, resp, r)
                    /\ UNCHANGED <<store, timerPending, saveArmed>>
     IN CASE resp \in {"throws", "badJson"} -> Fail(R_Error)
          [] resp = "notOk" -> Fail(R_NotOk)
          [] resp = "ok" /\ ~ShouldReplace(force[c], repoVersion, currentVersion) ->
               /\ lastOp' = SyncOp("syncKeep", c, resp, R_UpToDate)
               /\ UNCHANGED <<store, timerPending, saveArmed>>
          [] resp = "ok" /\ ShouldReplace(force[c], repoVersion, currentVersion)
                         /\ ~cleanedData.hasDP ->
               \* Object.values(undefined) throws into the outer catch
               Fail(R_Error)
          [] OTHER ->
               /\ dailyProgress' = cleanedData.dailyProgress
               /\ totalBacktests' = SumUnique(cleanedData.dailyProgress)
               /\ currentStreak' = cleanedData.currentStreak
               /\ analyses' = cleanedData.analyses
               /\ lastUpdated' = repoVersion
               /\ timerPending' = TRUE
               /\ saveArmed' = TRUE
               /\ lastOp' = SyncOp("syncReplace", c, resp, R_Updated)
  \* the call's arguments and closure die with it
  /\ force' = [force EXCEPT ![c] = FALSE]
  /\ seenVersion' = [seenVersion EXCEPT ![c] = NoVersion]
  /\ lastSyncAge' = SyncTimeAfter(c, lastOp'.result)
  /\ UNCHANGED <<remote, isProd, autoStarted, now, persisted, exported, page,
                 storedVersion, filterVars, formVars>>

\* Faulty variant: a sync is due as soon as the interval has passed
shouldSyncAtInterval ==
  isProd \/ lastSyncAge = NoTime \/ lastSyncAge >= SYNC_INTERVAL

\* shouldSync(): always in production; in development if no time is stored or
\* Date.now() - lastSync > SYNC_INTERVAL
shouldSync ==
  isProd \/ lastSyncAge = NoTime \/ lastSyncAge > SYNC_INTERVAL

\* Faulty variant: the first visit reloads as well
MustReloadOnFirstVisit(lastVersion) == lastVersion # APP_VERSION

\* lastVersion !== '0' && lastVersion !== APP_VERSION
MustReload(lastVersion) == lastVersion # "0" /\ lastVersion # APP_VERSION

\* AutoSync mounts: the version effect, then the sync effect.  A reload
\* discards the page with the call the sync effect has just made; the state
\* comes back from localStorage as it was.
Mount ==
  /\ page = "loading"
  /\ UNCHANGED <<filterVars, formVars>>
  /\ LET lastVersion == IF storedVersion = NoItem THEN "0" ELSE storedVersion
     IN /\ storedVersion' = IF lastVersion # APP_VERSION THEN APP_VERSION
                                                         ELSE storedVersion
        /\ IF lastVersion # APP_VERSION /\ MustReload(lastVersion)
           THEN /\ page' = "loading"
                /\ lastOp' = UserOp("reload")
                /\ UNCHANGED <<store, syncVars, remote, isProd, autoStarted, now,
                               timerPending, saveArmed, persisted, exported,
                               lastSyncAge>>
           ELSE /\ page' = "mounted"
                /\ autoStarted' = TRUE
                /\ IF shouldSync
                   THEN syncWithRepoStart("auto", isProd)
                   ELSE /\ lastOp' = UserOp("skipSync")
                        /\ UNCHANGED <<store, syncVars, remote, isProd, now,
                                       timerPending, saveArmed, persisted,
                                       exported, lastSyncAge>>

\* -------------------------------------------------------------- dashboard
\* The dependencies of the lists' effects, as the current render has them.
Deps == [filterDate |-> filterDate, searchDate |-> searchDate]
\* The effects of the last render have run and changed nothing since.
EffectsDone == committed = Deps
OnDashboard == Mounted /\ activeTab = "dashboard" /\ EffectsDone

UserEvent(kind, t) ==
  /\ uiEvent' = [kind |-> kind, text |-> t]
  /\ passes' = 0
  /\ UNCHANGED <<committed, app, formVars>>

\* CalendarView.handleViewEntries: setFilterDate(formatDateKey(selectedDate))
ViewEntries(d) ==
  /\ OnDashboard
  /\ filterDate' = d
  /\ UNCHANGED searchDate
  /\ UserEvent("viewEntries", d)

\* onChange of a list's search box: setSearchDate(e.target.value)
EditSearch(l, t) ==
  /\ OnDashboard
  /\ t # searchDate[l]
  /\ searchDate' = [searchDate EXCEPT ![l] = t]
  /\ UNCHANGED filterDate
  /\ UserEvent("edit", t)

\* handleClearFilter of a list; its button shows while the box holds a text
ClearFilter(l) ==
  /\ OnDashboard
  /\ searchDate[l] # EmptyDate
  /\ searchDate' = [searchDate EXCEPT ![l] = EmptyDate]
  /\ filterDate' = EmptyDate
  /\ UserEvent("clear", EmptyDate)

\* Faulty variant: the lists do not take over the shared date
SearchAfterFilterKept(f, s) == s

\* The first effect of either list: if (filterDate) setSearchDate(filterDate)
SearchAfterFilter(f, s) == IF f # EmptyDate THEN f ELSE s

\* One effects pass after a render.  An effect runs if one of its
\* dependencies differs from the render before; it reads the values of its
\* own render; the updates are applied together, the last one to a state
\* winning.  BacktestList's effects run before AnalysisList's.
RunEffects ==
  /\ Mounted
  /\ ~EffectsDone
  /\ LET filterChanged == filterDate # committed.filterDate
         changed(l) == searchDate[l] # committed.searchDate[l]
         \* BacktestList: if (searchDate !== filterDate) setFilterDate('')
         clears == /\ changed("backtests") \/ filterChanged
                   /\ searchDate["backtests"] # filterDate
         \* AnalysisList: if (searchDate !== filterDate) setFilterDate(searchDate)
         pushes == /\ changed("analyses")
                   /\ searchDate["analyses"] # filterDate
     IN /\ searchDate' = [l \in Lists |->
                            IF filterChanged
                            THEN SearchAfterFilter(filterDate, searchDate[l])
                            ELSE searchDate[l]]
        /\ filterDate' = IF pushes THEN searchDate["analyses"]
                         ELSE IF clears THEN EmptyDate
                         ELSE filterDate
  /\ committed' = Deps
  /\ passes' = passes + 1
  /\ UNCHANGED <<uiEvent, app, formVars>>

\* s.includes(t) for a date field s and a text t
Includes(s, t) ==
  IF t = EmptyDate THEN TRUE
  ELSE IF t = PartialDate THEN s >= 1
  ELSE s = t

\* BacktestList.filteredBacktests
filteredBacktests ==
  LET t == searchDate["backtests"]
  IN IF t = EmptyDate THEN AllRecords(dailyProgress)
     ELSE {r \in AllRecords(dailyProgress) :
             Includes(r.backtestDate, t) \/ Includes(r.datePerformed, t)}

\* ----------------------------------------------------------- tabs and form
\* AppContent's first effect: without the admin tabs, an admin tab goes back
\* to the dashboard.
RedirectedTab(tab) ==
  IF ~showAdminTabs /\ tab \in {"add-backtest", "add-analysis"} THEN "dashboard"
  ELSE tab

\* {activeTab === 'add-backtest' && showAdminTabs && <BacktestForm />}
FormRendered(tab) == tab = "add-backtest" /\ showAdminTabs

\* BacktestForm's effect for a pending duplicate: the dates of the original,
\* today for a missing datePerformed; a backtestDate that does not parse
\* throws into the catch, which resets the form.
Prefilled(b) ==
  IF ~ParsesAsDate(b.backtestDate) THEN FreshForm
  ELSE [mounted |-> TRUE,
        backtestDate |-> b.backtestDate,
        datePerformed |-> IF b.datePerformed = EmptyDate THEN Today
                          ELSE b.datePerformed]

\* The form once the render of tab, with p pending, and its effects are done.
\* The effect runs when the form mounts and when pendingDuplicate changes.
FormAfter(tab, p) ==
  IF ~FormRendered(tab) THEN NoForm
  ELSE IF p # NoDuplicate THEN Prefilled(p)
  ELSE IF form.mounted THEN form
  ELSE FreshForm

\* The form's effect has armed the timer that calls clearDuplicate().
ArmsClear(tab, p) == FormRendered(tab) /\ p # NoDuplicate

\* BacktestList.handleDuplicateBacktest(b): duplicateBacktest(b) and
\* setActiveTab('add-backtest'), then the effects of the render.  The button
\* is rendered in builds that are not production builds.
Duplicate(b) ==
  /\ OnDashboard
  /\ ~isProd
  /\ b \in filteredBacktests
  /\ pendingDuplicate' = b
  /\ activeTab' = RedirectedTab("add-backtest")
  /\ form' = FormAfter("add-backtest", b)
  /\ clearArmed' = (clearArmed \/ ArmsClear("add-backtest", b))
  /\ UNCHANGED <<showAdminTabs, app, filterVars>>

\* A click on a tab of the navigation bar.
SelectTab(tab) ==
  /\ Mounted
  /\ EffectsDone
  /\ ~isProd \/ showAdminTabs
  /\ tab = "dashboard" \/ showAdminTabs
  /\ tab # activeTab
  /\ activeTab' = RedirectedTab(tab)
  /\ form' = FormAfter(tab, pendingDuplicate)
  /\ clearArmed' = (clearArmed \/ ArmsClear(tab, pendingDuplicate))
  /\ UNCHANGED <<pendingDuplicate, showAdminTabs, app, filterVars>>

\* The 1000 ms timer of the form's effect: clearDuplicate().  It is not
\* cancelled when the form unmounts.
ClearDuplicate ==
  /\ clearArmed
  /\ pendingDuplicate' = NoDuplicate
  /\ clearArmed' = FALSE
  /\ UNCHANGED <<activeTab, showAdminTabs, form, app, filterVars>>

Next ==
  \/ \E bd \in AddBacktestDates, performed \in AddDatesPerformed : AddBacktest(bd, performed)
  \/ \E id \in DeleteIds(dailyProgress) : DeleteBacktest(id)
  \/ \E t \in ImportTexts \cup {exported} : ImportData(t)
  \/ \E c \in Callers, f \in BOOLEAN : SyncStart(c, f)
  \/ \E c \in Callers, resp \in Responses : SyncFinish(c, resp)
  \/ Recompute

Spec == Init /\ [][Next]_vars

\* The store with the export button.
NextExport == Next \/ ExportData
SpecExport == Init /\ [][NextExport]_vars

\* The store with its save timer, on a development build whose remote
\* snapshot is newer than the page.  A timer that stays armed fires: nothing
\* cancels it but a new state, which arms the next one.
InitPersist == Init /\ remote = File(V_Later, D_Streak) /\ ~isProd
NextPersist == Next \/ SaveTimer
SpecPersist == InitPersist /\ [][NextPersist]_vars /\ WF_vars(SaveTimer)

\* The store with its recompute timer, on the same build and snapshot.  An
\* armed timer fires: a new dailyProgress cancels it, and arms the next one.
SpecRecompute == InitPersist /\ [][Next]_vars /\ WF_vars(Recompute)

\* The store under addBacktest and deleteBacktest alone, with its timers:
\* nothing is imported and no sync is made.
NextAddDelete ==
  \/ \E bd \in AddBacktestDates, performed \in AddDatesPerformed : AddBacktest(bd, performed)
  \/ \E id \in DeleteIds(dailyProgress) : DeleteBacktest(id)
  \/ Recompute
  \/ SaveTimer
SpecAddDelete == Init /\ [][NextAddDelete]_vars

\* The application from the page load: AutoSync mounts before any handler
\* runs.  The browser may hold no app version, an earlier build's or this
\* build's, and no sync time or one of any age.
InitAutoSync ==
  /\ InitPage
  /\ page = "loading"
  /\ storedVersion \in {NoItem, OLD_VERSION, APP_VERSION}
  /\ lastSyncAge \in {NoTime, 0, SYNC_INTERVAL, SYNC_INTERVAL + 1}
  /\ showAdminTabs = TRUE
NextAutoSync == Next \/ Mount
SpecAutoSync == InitAutoSync /\ [][NextAutoSync]_vars

\* The dashboard of a development build: the calendar's 'View Entries', the
\* two search boxes and their clear buttons, over a store that addBacktest
\* and deleteBacktest fill.
InitFilter == InitPersist
NextFilter ==
  \/ \E d \in Days : ViewEntries(d)
  \/ \E l \in Lists, t \in SearchTexts : EditSearch(l, t)
  \/ \E l \in Lists : ClearFilter(l)
  \/ RunEffects
  \/ \E bd \in AddBacktestDates, performed \in AddDatesPerformed : AddBacktest(bd, performed)
  \/ \E id \in DeleteIds(dailyProgress) : DeleteBacktest(id)
  \/ Recompute
SpecFilter == InitFilter /\ [][NextFilter]_vars

\* The tabs, the list's Duplicate button and the add form, in every build:
\* production or not, admin tabs shown or not.  No date filter is set.
InitDuplicate ==
  /\ InitPage
  /\ remote = File(V_Later, D_Streak)
  /\ page = "mounted"
  /\ storedVersion = APP_VERSION
  /\ lastSyncAge = NoTime
  /\ showAdminTabs \in BOOLEAN
NextDuplicate ==
  \/ \E b \in filteredBacktests : Duplicate(b)
  \/ \E tab \in Tabs : SelectTab(tab)
  \/ ClearDuplicate
  \/ \E bd \in AddBacktestDates, performed \in AddDatesPerformed : AddBacktest(bd, performed)
  \/ \E id \in DeleteIds(dailyProgress) : DeleteBacktest(id)
  \/ Recompute
SpecDuplicate == InitDuplicate /\ [][NextDuplicate]_vars

\* =========================================================== properties
\* What "the bucket holds at least 5 distinct backtestDate values" means.
HoldsFiveDistinct(b) ==
  \E S \in SUBSET {b.backtests[j].backtestDate : j \in 1..Len(b.backtests)} :
    Cardinality(S) = CompleteThreshold

Buckets == {dailyProgress[i] : i \in 1..Len(dailyProgress)}

RECURSIVE SumOver(_, _)
\* The sum of count[b] over the buckets of a set.
SumOver(bs, count) ==
  IF bs = {} THEN 0
  ELSE LET b == CHOOSE x \in bs : TRUE IN count[b] + SumOver(bs \ {b}, count)

DistinctCount == [b \in Buckets |-> countUniqueBacktestDates(b.backtests)]

\* C1: in every reachable state totalBacktests is the sum, over the day
\* buckets, of the number of distinct backtestDate values in the bucket.
C1_TotalIsSumOfBuckets == totalBacktests = SumOver(Buckets, DistinctCount)

\* C2: after every addBacktest, deleteBacktest and state-replacing sync each
\* bucket's isComplete is true exactly when it holds at least 5 distinct
\* backtestDate values.
C2_FlagsMatchAfterMutation ==
  lastOp.op \in {"add", "delete", "syncReplace"} =>
    \A b \in Buckets : b.isComplete <=> HoldsFiveDistinct(b)

\* C3: a sync that fetched and parsed a snapshot replaces the state exactly
\* when force is set or the remote version is newer than the lastUpdated the
\* call read (versions compared as the code compares them); otherwise it
\* returns success 'Local data is up to date' and the state is unchanged.
C3_ReplaceIffForceOrNewer ==
  [][\A c \in Callers :
       (pc[c] = "fetching" /\ pc'[c] = "idle" /\ lastOp'.resp = "ok"
          /\ remote.data.hasDP) =>
         LET newer == StrLess(OrZero(seenVersion[c]), OrZero(remote.version))
         IN IF force[c] \/ newer
            THEN /\ lastOp'.result = R_Updated
                 /\ lastUpdated' = OrZero(remote.version)
                 /\ KeySeq(dailyProgress') = KeySeq(remote.data.dailyProgress)
            ELSE /\ lastOp'.result = R_UpToDate
                 /\ store' = store]_vars

\* C3 witness: a non-forced sync met a remote version that is not newer and
\* kept a non-empty local state.
C3_Witness ==
  /\ lastOp.op = "syncKeep"
  /\ lastOp.result = R_UpToDate
  /\ dailyProgress # <<>>

\* A record whose non-empty dates all parse.
HasUsableDates(r) == r.backtestDate # BadDate /\ r.datePerformed # BadDate
RecordsOf(b) == {b.backtests[j] : j \in 1..Len(b.backtests)}
Snapshot == remote.data.dailyProgress

\* C4 as stated: after a replacing sync the buckets and records are exactly
\* those of the remote snapshot.
C4_ExactlyTheSnapshot ==
  lastOp.op = "syncReplace" =>
    /\ KeySeq(dailyProgress) = KeySeq(Snapshot)
    /\ \A i \in 1..Len(Snapshot) : RecordsOf(dailyProgress[i]) = RecordsOf(Snapshot[i])

\* C4 amended: after a replacing sync the buckets are exactly those of the
\* remote snapshot, each holding exactly the snapshot's records whose
\* non-empty dates parse; nothing of the previous local state survives.
C4_SnapshotMinusInvalid ==
  lastOp.op = "syncReplace" =>
    /\ KeySeq(dailyProgress) = KeySeq(Snapshot)
    /\ \A i \in 1..Len(Snapshot) :
         /\ dailyProgress[i].date = Snapshot[i].date
         /\ RecordsOf(dailyProgress[i]) = {r \in RecordsOf(Snapshot[i]) : HasUsableDates(r)}
         /\ Len(dailyProgress[i].backtests) = Cardinality(RecordsOf(dailyProgress[i]))

\* C4 witness: a sync replaced a state the user had already worked on, with
\* a snapshot that holds an entry with an unparseable date and one with an
\* empty date.
C4_Witness ==
  /\ lastOp.op = "syncReplace"
  /\ now > Clock0
  /\ \E i \in 1..Len(Snapshot) : \E r \in RecordsOf(Snapshot[i]) : ~HasUsableDates(r)
  /\ \E r \in AllRecords(dailyProgress) : r.backtestDate = EmptyDate

Fetching == {c \in Callers : pc[c] = "fetching"}

\* C5: at most one syncWithRepo call is between setting and clearing the
\* flag, and a call that finds the flag set returns 'Sync already in
\* progress' without fetching, changing the state or clearing the flag.
C5_SyncsNeverOverlap ==
  /\ [](Cardinality(Fetching) <= 1 /\ (syncInProgress <=> Fetching # {}))
  /\ [][(syncInProgress /\ lastOp'.op \in {"syncStart", "syncBusy"}) =>
          /\ lastOp'.result = R_Busy
          /\ pc' = pc
          /\ store' = store
          /\ syncInProgress']_vars

\* C5 witness: a call was turned away while another one is still fetching.
C5_Witness ==
  /\ lastOp.op = "syncBusy"
  /\ lastOp.result = R_Busy
  /\ Fetching # {}
  /\ syncInProgress

CompleteOn(d) == \E b \in Buckets : b.key = d /\ b.isComplete
RecentComplete == CompleteOn(Today) \/ CompleteOn(Yesterday)
Recomputed == lastOp.op = "recompute"

\* C6: whenever today's or yesterday's bucket is complete, calculateStreak
\* sets currentStreak to at least 1.
C6_RecentCompleteGivesStreak == (Recomputed /\ RecentComplete) => currentStreak >= 1

\* C7: calculateStreak sets currentStreak to 0 when there are no buckets or
\* neither today's nor yesterday's bucket is complete, whatever older days hold.
C7_NoRecentCompleteGivesZero ==
  (Recomputed /\ (Buckets = {} \/ ~RecentComplete)) => currentStreak = 0

\* C7 witness: the streak was reset although some other day is complete.
C7_Witness ==
  /\ Recomputed
  /\ ~RecentComplete
  /\ \E b \in Buckets : b.isComplete
  /\ currentStreak = 0

\* The number of consecutive complete calendar days that end at today or,
\* when today is not complete, at yesterday.
CalendarStreak ==
  LET last == IF CompleteOn(Today) THEN Today
              ELSE IF CompleteOn(Yesterday) THEN Yesterday ELSE 0
  IN Cardinality({d \in 1..last : \A e \in d..last : CompleteOn(e)})

\* C8: the recomputed currentStreak is the number of consecutive complete
\* calendar days ending at today or yesterday.
C8_StreakCountsCalendarDays == Recomputed => currentStreak = CalendarStreak

\* The buckets dated after bucket b.
Later(b) == {x \in Buckets : x.key > b.key}
\* The n latest buckets are all complete.
LatestComplete(n) == \A b \in Buckets : Cardinality(Later(b)) < n => b.isComplete

\* C9: when today or yesterday is complete, currentStreak is the length of
\* the longest run of complete buckets at the head of the keys taken in
\* descending date order.
C9_StreakIsLeadingRun ==
  (Recomputed /\ RecentComplete) =>
    /\ currentStreak \in 0..Cardinality(Buckets)
    /\ LatestComplete(currentStreak)
    /\ currentStreak < Cardinality(Buckets) => ~LatestComplete(currentStreak + 1)

\* C9 witness: the walk counted a complete day and stopped at an incomplete one.
C9_Witness ==
  /\ Recomputed
  /\ RecentComplete
  /\ currentStreak >= 1
  /\ currentStreak < Cardinality(Buckets)

\* ---------------------------------------------------------------- calendar
\* getTileContent: the isComplete handed to the tile's DateIndicator.
TileIsComplete(d) ==
  LET hasBacktests == d \in Keys(dailyProgress) /\ Len(Get(dailyProgress, d).backtests) > 0
      hasAnalyses == analyses[d] > 0
      uniqueDatesCount == IF hasBacktests
                          THEN countUniqueBacktestDates(Get(dailyProgress, d).backtests)
                          ELSE 0
      analysesCount == analyses[d]
  IN IF ~hasBacktests /\ ~hasAnalyses THEN FALSE
     ELSE (uniqueDatesCount + analysesCount) >= CompleteThreshold

\* renderSelectedDateInfo: the status line reads 'Complete'.
StatusIsComplete(d) ==
  LET hasBacktests == d \in Keys(dailyProgress) /\ Len(Get(dailyProgress, d).backtests) > 0
      hasAnalyses == analyses[d] > 0
      uniqueDatesCount == IF hasBacktests
                          THEN countUniqueBacktestDates(Get(dailyProgress, d).backtests)
                          ELSE 0
      analysesCount == analyses[d]
  IN (hasBacktests \/ hasAnalyses)
     /\ (uniqueDatesCount + analysesCount) >= CompleteThreshold

DistinctOn(d) ==
  Cardinality({r.backtestDate : r \in {x \in AllRecords(dailyProgress) :
                                         \E b \in Buckets : b.key = d /\ x \in RecordsOf(b)}})

\* C10: the calendar shows a day as complete exactly when it has at least 5
\* distinct backtest dates or at least 5 analyses, and that verdict agrees
\* with the isComplete flag the store keeps for the day.
C10_CalendarVerdict ==
  \A d \in Days :
    /\ TileIsComplete(d) <=> (DistinctOn(d) >= CompleteThreshold
                               \/ analyses[d] >= CompleteThreshold)
    /\ StatusIsComplete(d) <=> TileIsComplete(d)
    /\ TileIsComplete(d) <=> CompleteOn(d)

RECURSIVE ToNum(_)
\* A string of decimal digits read as a timestamp (a number).
ToNum(v) == IF v = <<>> THEN 0 ELSE 10 * ToNum(SubSeq(v, 1, Len(v) - 1)) + v[Len(v)]

\* C11: over any sequence of addBacktest, deleteBacktest, importData and
\* syncWithRepo calls (forced or not), state.lastUpdated read as a timestamp
\* never decreases.
C11_LastUpdatedNeverDecreases ==
  [][ToNum(lastUpdated') >= ToNum(lastUpdated)]_vars

\* C12: a non-forced sync that fetched and parsed a snapshot replaces the
\* state exactly when the remote version ('0' when missing) is numerically
\* greater than the local lastUpdated the call read.
C12_NewerMeansNumericallyLater ==
  [][\A c \in Callers :
       (pc[c] = "fetching" /\ pc'[c] = "idle" /\ lastOp'.resp = "ok"
          /\ remote.data.hasDP /\ ~force[c]) =>
         (lastOp'.op = "syncReplace"
            <=> ToNum(OrZero(remote.version)) > ToNum(OrZero(seenVersion[c])))]_vars

\* C14: once the state stops changing, localStorage 'backtestData' comes to
\* hold the JSON of the current state and keeps holding it; and whatever is
\* written to the entry is the JSON of the state the store has at that moment
\* (states in between may be skipped, nothing else is written).
C14_EventuallyPersisted ==
  /\ (<>[][store' = store]_vars) => <>[](persisted = Stringify(StateValue))
  /\ [][persisted' # persisted => persisted' = Stringify(StateValue)]_vars

\* C14 witness: the entry holds a non-empty current state that the recompute
\* timer has settled, written by the save timer.
C14_Witness ==
  /\ lastOp.op = "save"
  /\ persisted = Stringify(StateValue)
  /\ dailyProgress # <<>>
  /\ ~timerPending

C15_BadJsonLeavesState ==
  [][lastOp'.resp = "notJson" =>
       /\ lastOp'.op = "importAlert"
       /\ store' = store]_vars

\* C15 witness: the alert was raised over a non-empty state.
C15_Witness ==
  /\ lastOp.op = "importAlert"
  /\ lastOp.resp = "notJson"
  /\ dailyProgress # <<>>

\* A sync call of caller c returns in this step.
Returns(c) == pc[c] = "fetching" /\ pc'[c] = "idle"

\* C16 as stated: when the fetch throws, the response is not OK, the body does
\* not parse or lacks a usable dailyProgress, syncWithRepo returns
\* success = false and the local state is exactly as before.
C16_FailingSyncReportsFailure ==
  [][\A c \in Callers :
       (Returns(c) /\ (lastOp'.resp \in {"throws", "notOk", "badJson"}
                        \/ ~remote.data.hasDP)) =>
         /\ ~lastOp'.result.success
         /\ store' = store]_vars

\* C16 amended: in all those cases the local state is exactly as before, and
\* the call returns success = false, except that a body without dailyProgress
\* which the call has no reason to apply (not forced, version not newer)
\* returns success 'Local data is up to date'.
C16_FailingSyncKeepsState ==
  [][\A c \in Callers :
       (Returns(c) /\ (lastOp'.resp \in {"throws", "notOk", "badJson"}
                        \/ ~remote.data.hasDP)) =>
         /\ store' = store
         /\ IF lastOp'.resp = "ok"
               /\ ~force[c]
               /\ ~StrGreater(OrZero(remote.version), OrZero(seenVersion[c]))
            THEN lastOp'.result = R_UpToDate
            ELSE ~lastOp'.result.success]_vars

\* C16 witness: a non-forced sync met a body without dailyProgress under a
\* version that is not newer, and kept a non-empty local state.
C16_Witness ==
  /\ lastOp.op = "syncKeep"
  /\ lastOp.resp = "ok"
  /\ ~remote.data.hasDP
  /\ dailyProgress # <<>>

\* C17: after a replacing sync no backtest with an unparseable (non-empty)
\* backtestDate or datePerformed is in the store, every record of the remote
\* snapshot whose dates are valid is in the bucket it came in, and each
\* bucket's isComplete and the total are those of the records that remain.
C17_InvalidDatesSkipped ==
  lastOp.op = "syncReplace" =>
    /\ \A r \in AllRecords(dailyProgress) :
         r.backtestDate # BadDate /\ r.datePerformed # BadDate
    /\ \A i \in 1..Len(Snapshot) : \A r \in RecordsOf(Snapshot[i]) :
         HasUsableDates(r) =>
           \E b \in Buckets : b.key = Snapshot[i].key /\ r \in RecordsOf(b)
    /\ \A b \in Buckets : b.isComplete <=> HoldsFiveDistinct(b)
    /\ totalBacktests = SumOver(Buckets, DistinctCount)

\* C17 witness: the snapshot called a day complete that, without its two
\* records with unparseable dates, is not.
C17_Witness ==
  /\ lastOp.op = "syncReplace"
  /\ \E i \in 1..Len(Snapshot) :
       /\ Snapshot[i].isComplete
       /\ \E r \in RecordsOf(Snapshot[i]) : r.backtestDate = BadDate
       /\ \E r \in RecordsOf(Snapshot[i]) : r.datePerformed = BadDate
       /\ ~dailyProgress[i].isComplete
       /\ dailyProgress[i].backtests # <<>>
  /\ totalBacktests < remote.data.totalBacktests

\* C18: in every state reachable by add, delete, import and sync, after
\* deleteBacktest(id) no backtest with that id remains in any day bucket.
C18_DeletedIdIsGone ==
  [][\A id \in DeleteIds(dailyProgress) :
       DeleteBacktest(id) => id \notin AllIds(dailyProgress')]_vars

\* The backtests of the bucket with key k, none when there is no such bucket.
BacktestsAt(dp, k) == IF k \in Keys(dp) THEN Get(dp, k).backtests ELSE <<>>

\* C19: addBacktest appends exactly one new record, with an id no existing
\* record has, to the bucket of its datePerformed (today's when it has none);
\* deleteBacktest removes records from exactly one bucket; both leave every
\* other bucket and every field of every surviving record unchanged.
C19_RecordsNeverMutated ==
  [][/\ lastOp'.op = "add" =>
          \E r \in AllRecords(dailyProgress') :
            LET k == IF r.datePerformed = EmptyDate THEN Today ELSE r.datePerformed
            IN /\ r.id \notin AllIds(dailyProgress)
               /\ Keys(dailyProgress') = Keys(dailyProgress) \cup {k}
               /\ Len(dailyProgress') = Cardinality(Keys(dailyProgress'))
               /\ BacktestsAt(dailyProgress', k)
                    = Append(BacktestsAt(dailyProgress, k), r)
               /\ \A i \in 1..Len(dailyProgress) :
                    dailyProgress[i].key # k => dailyProgress'[i] = dailyProgress[i]
     /\ lastOp'.op = "delete" =>
          /\ Len(dailyProgress') = Len(dailyProgress)
          /\ \E t \in 1..Len(dailyProgress) :
               /\ \A i \in 1..Len(dailyProgress) :
                    i # t => dailyProgress'[i] = dailyProgress[i]
               /\ dailyProgress'[t].key = dailyProgress[t].key
               /\ dailyProgress'[t].date = dailyProgress[t].date
               /\ Len(dailyProgress'[t].backtests) < Len(dailyProgress[t].backtests)
               /\ dailyProgress'[t].backtests =
                    SelectSeq(dailyProgress[t].backtests,
                              LAMBDA x : x \in RecordsOf(dailyProgress'[t]))]_vars

\* C19 witness: a record was added to a bucket that held records already,
\* next to another bucket.
C19_Witness ==
  /\ lastOp.op = "add"
  /\ Len(dailyProgress) >= 2
  /\ \E b \in Buckets :
       /\ Len(b.backtests) >= 2
       /\ b.backtests[Len(b.backtests)].id = now - 1

\* AutoSync calls syncWithRepo in this step.
AutoCalls ==
  lastOp'.by = "auto" /\ lastOp'.op \in {"syncStart", "syncBusy"}

\* C20: AutoSync calls syncWithRepo at most once per page load: a call is
\* made only when none was made before, whatever the earlier call returned
\* ('Sync already in progress' included).
C20_AutoSyncOnce ==
  [][/\ AutoCalls => ~autoStarted /\ autoStarted'
     /\ autoStarted => autoStarted']_vars

\* C20 witness: the automatic call found a manual sync running and returned
\* 'Sync already in progress'.
C20_Witness ==
  /\ autoStarted
  /\ lastOp.by = "auto"
  /\ lastOp.op = "syncBusy"
  /\ lastOp.result = R_Busy
  /\ pc["manual"] = "fetching"

\* C21: every syncWithRepo call that set the flag clears it when it returns,
\* whatever the path; so the flag is set only while a call is in flight, and a
\* call is turned away with 'Sync already in progress' only while another
\* call is in flight, never because of a call that has finished.
C21_FlagAlwaysReleased ==
  /\ [][\A c \in Callers : Returns(c) => ~syncInProgress']_vars
  /\ [](Fetching = {} => ~syncInProgress)
  /\ [][(lastOp' # lastOp /\ lastOp'.op = "syncBusy") => Fetching # {}]_vars

\* C21 witness: a sync ended on a failure path and a later call was let in.
C21_Witness ==
  /\ lastOp.op = "syncStart"
  /\ lastOp.by = "manual"
  /\ autoStarted
  /\ pc["auto"] = "idle"
  /\ Fetching = {"manual"}

\* C22: a non-forced sync that returns after an addBacktest or deleteBacktest
\* ran during its fetch replaces the state only if the remote version is
\* newer than the lastUpdated the store holds at the moment of replacement.
C22_SyncSparesNewerEdits ==
  [][\A c \in Callers :
       (Returns(c) /\ ~force[c] /\ lastOp.op \in {"add", "delete"}
          /\ lastOp'.op = "syncReplace") =>
         StrGreater(OrZero(remote.version), OrZero(lastUpdated))]_vars

\* The derived fields are those of the current dailyProgress.
Settled ==
  /\ totalBacktests = SumOver(Buckets, DistinctCount)
  /\ currentStreak = calculateStreak(dailyProgress)

\* C23: the recompute timer, once it has fired, is not armed again by its own
\* updates; whenever it is not armed the derived fields are settled; and once
\* no operation other than the recompute happens any more, the store comes to
\* rest with totalBacktests the sum of the buckets' distinct backtestDate
\* counts and currentStreak the streak of the current dailyProgress.
C23_RecomputeConverges ==
  /\ [][lastOp'.op = "recompute" => timerPending /\ ~timerPending']_vars
  /\ [](~timerPending => Settled)
  /\ (<>[][lastOp'.op = "recompute"]_vars) => <>[](~timerPending /\ Settled)

\* C23 witness: the recompute has corrected the total of an imported file
\* that counted five entries for one backtest date.
C23_Witness ==
  /\ lastOp.op = "recompute"
  /\ ~timerPending
  /\ totalBacktests = 1
  /\ \E b \in Buckets : Len(b.backtests) = CompleteThreshold

\* ---------------------------------------------------------------- AutoSync
Mounts == page = "loading" /\ page' = "mounted"
AutoCallStarts == pc["auto"] = "idle" /\ pc'["auto"] = "fetching"

\* C24: AutoSync's policy on mount.  A production build starts a sync with
\* force = true, and when that sync obtains a snapshot with a dailyProgress the
\* store is replaced by it whatever the two versions are.  A development build
\* starts a sync, not forced, exactly if no last-sync time is stored or more
\* than 24 hours have passed since it.  AutoSync starts no sync at any other
\* moment.
C24_AutoSyncPolicy ==
  /\ [][(Mounts /\ isProd) => (AutoCallStarts /\ force'["auto"])]_vars
  /\ [][(Mounts /\ ~isProd) =>
          /\ ~force'["auto"]
          /\ AutoCallStarts <=>
               (lastSyncAge = NoTime \/ lastSyncAge > SYNC_INTERVAL)]_vars
  /\ [][AutoCallStarts => Mounts]_vars
  /\ [][(Returns("auto") /\ isProd /\ lastOp'.resp = "ok" /\ remote.data.hasDP) =>
          /\ lastOp'.op = "syncReplace"
          /\ dailyProgress' = cleanAndValidateData(remote.data).dailyProgress
          /\ lastUpdated' = OrZero(remote.version)]_vars

\* A production build has replaced the state by a snapshot that carries no
\* version.
C24_Witness ==
  /\ isProd
  /\ lastOp.op = "syncReplace"
  /\ lastOp.by = "auto"
  /\ remote.version = V_Missing
  /\ lastUpdated = <<0>>
  /\ dailyProgress = remote.data.dailyProgress

\* C25: the version check causes no refresh loop.  AutoSync's mount reloads the
\* page exactly if a stored app version exists and differs from APP_VERSION;
\* the stored version is APP_VERSION when the page reloads (and whenever the
\* mount effects have run), so no reload follows a reload, and a first visit
\* does not reload.
C25_NoRefreshLoop ==
  /\ [][page = "loading" =>
          ((page' = "loading") <=> storedVersion \notin {NoItem, APP_VERSION})]_vars
  /\ [][page = "loading" => storedVersion' = APP_VERSION]_vars
  /\ [][(page = "loading" /\ lastOp.op = "reload") => page' = "mounted"]_vars
  /\ [](page = "mounted" => storedVersion = APP_VERSION)

\* The page has reloaded for the build after OLD_VERSION, and the stored
\* version is the new one.
C25_Witness ==
  /\ page = "loading"
  /\ lastOp.op = "reload"
  /\ storedVersion = APP_VERSION
  /\ ~autoStarted

\* C26: 'backtest_last_sync_time' changes only with a sync that returned
\* success = true, whoever started it.
C26_SyncTimeOnlyOnSuccess ==
  [][lastSyncAge' # lastSyncAge => lastOp'.result.success]_vars

\* ------------------------------------------------------- delete and add
\* C27: deleteBacktest with an id that no stored backtest has changes
\* nothing: dailyProgress, totalBacktests, currentStreak, lastUpdated and the
\* analyses stay as they are, and neither the recompute timer nor the save
\* timer is armed.
C27_DeleteUnknownIdIsNoOp ==
  [][\A id \in DeleteIds(dailyProgress) :
       (id \notin AllIds(dailyProgress) /\ DeleteBacktest(id)) =>
         UNCHANGED <<store, timerPending, saveArmed>>]_vars

\* An unknown id was deleted from a store that holds a backtest and whose
\* recompute timer had fired.
C27_Witness ==
  /\ lastOp.op = "deleteNone"
  /\ dailyProgress # <<>>
  /\ AllIds(dailyProgress) # {}
  /\ ~timerPending

\* C28: buckets are keyed by the date performed.  In every state that
\* addBacktest and deleteBacktest reach from the empty store, the bucket under
\* key d has date = d and every backtest in it has datePerformed = d.
C28_BucketsKeyedByDatePerformed ==
  \A b \in Buckets :
    /\ b.date = b.key
    /\ \A r \in RecordsOf(b) : r.datePerformed = b.key

\* --------------------------------------------------------------- dashboard
\* C29: the filter synchronisation settles.  After 'View Entries', an edit of
\* a search box or a clear button, the lists' effects run at most three
\* passes and the third changes nothing more, so no update follows it; and
\* once the effects after 'View Entries' for the date d have settled, the
\* search text of BacktestList is d and the list shows exactly the backtests
\* whose backtestDate or datePerformed contains d.
C29_FilterSyncSettles ==
  /\ [](passes <= 3)
  /\ [](passes = 3 => EffectsDone)
  /\ []((EffectsDone /\ uiEvent.kind = "viewEntries") =>
          /\ searchDate["backtests"] = uiEvent.text
          /\ filteredBacktests =
               {r \in AllRecords(dailyProgress) :
                  r.backtestDate = uiEvent.text \/ r.datePerformed = uiEvent.text})

\* 'View Entries' for yesterday has settled after three passes; the list shows
\* the one backtest performed yesterday and hides the other one.
C29_Witness ==
  /\ uiEvent = [kind |-> "viewEntries", text |-> Yesterday]
  /\ passes = 3
  /\ EffectsDone
  /\ searchDate["backtests"] = Yesterday
  /\ Cardinality(filteredBacktests) = 1
  /\ Cardinality(AllRecords(dailyProgress)) = 2

\* ------------------------------------------------------------- duplicate
\* C30: a duplicate request is always consumed.  Wherever the Duplicate button
\* is available, pressing it for the backtest b leaves the add form shown and
\* pre-filled from b, and as long as a duplicate is pending the timer that
\* sets pendingDuplicate back to null is armed.
C30_DuplicateIsConsumed ==
  /\ [][\A b \in filteredBacktests :
          Duplicate(b) =>
            /\ form'.mounted
            /\ form'.backtestDate = b.backtestDate
            /\ clearArmed']_vars
  /\ [](pendingDuplicate # NoDuplicate => clearArmed)

====
